---- MODULE Spec2Model ----
(***************************************************************************)
(* Model of the incremental sync engine of the iMessage-to-email service:  *)
(*   SyncService   (src/src/commands/service.ts)                           *)
(*   ConfigManager (src/unnamed/part_000, first class in the file)         *)
(*   GmailService  (src/unnamed/part_001)                                  *)
(*   MessageExporter (src/unnamed/part_002)                                *)
(* Time is counted in units of 2.5 seconds.  Optional values (a TypeScript   *)
(* field that may be undefined) are sequences of length 0 or 1.            *)
(***************************************************************************)
EXTENDS Integers, Sequences, FiniteSets, TLC

\* ---------------------------------------------------------------- bounds
MaxTime == 3
MaxMsgs == 2
MaxCycles == 2
MaxInflight == 2
MaxBatch == 3
MaxWrites == 3

\* ------------------------------------------------------ program constants
\* service.ts:187  new Date(Date.now() - 5000): 5000 ms are two units of time
SyncBuffer == 2
\* service.ts:231  startDate.getTime() - 2 * 60 * 1000: two minutes are 48 units
ExportBuffer == 48

\* --------------------------------------------------------------- domains
Undefined == << >>
Some(x) == << x >>
IsDefined(o) == Len(o) > 0

ChatA == << "+", "1" >>
ChatB == << "+", "2" >>
ChatIds == { ChatA, ChatB }
\* chatIdentifier is any string: a phone number or an e-mail address
MailDotted == << "a", ".", "b", "@", "c" >>
MailPlain == << "a", "b", "@", "c" >>
ConversationIds == ChatIds \cup { MailDotted, MailPlain }
Files == { 1 }
Slots == 1 .. MaxInflight
\* Math.random().toString(36) yields "0." followed by base-36 digits
GuidPool == { << "0", ".", "a" >>, << "0", ".", "b" >> }
Alnum == { "0", "1", "2", "3", "4", "5", "6", "7", "8", "9", "a", "b", "c" }

\* display names
Ann == << "A", "n", "n" >>
Bob == << "B", "o", "b" >>

\* ------------------------------------------------------------ sequences
Range(s) == { s[i] : i \in DOMAIN s }

RECURSIVE SeqOfSet(_)
SeqOfSet(S) ==
    IF S = {} THEN << >>
    ELSE LET x == CHOOSE y \in S : \A z \in S : y.id <= z.id
         IN << x >> \o SeqOfSet(S \ { x })

\* ---------------------------------------------------------------- strings
Digits == { "0", "1", "2", "3", "4", "5", "6", "7", "8", "9" }

\* phone.replace(/\D/g, '')
DigitsOf(phone) == SelectSeq(phone, LAMBDA ch : ch \in Digits)

\* identifier.includes('@')
IncludesAt(identifier) == \E j \in DOMAIN identifier : identifier[j] = "@"

\* phone.startsWith('+')
StartsWithPlus(phone) == Len(phone) > 0 /\ phone[1] = "+"

\* str.includes(part)
Includes(str, part) ==
    \E j \in 0 .. Len(str) - Len(part) : SubSeq(str, j + 1, j + Len(part)) = part

\* ------------------------------------------------------------------------
\* GmailService (part_001)
\* ------------------------------------------------------------------------
\* formatPhoneForSubject
formatPhoneForSubject(phone) ==
    LET digits == DigitsOf(phone)
    IN IF Len(digits) = 10 THEN << "+", "1" >> \o digits
       ELSE IF Len(digits) = 11 /\ digits[1] = "1" THEN << "+" >> \o digits
       ELSE IF StartsWithPlus(phone) THEN phone
       ELSE << "+" >> \o phone

NameOnly(conversationDisplayName, conversationId) ==
    << "iMessage: " >> \o conversationDisplayName

\* createEmailSubject
createEmailSubject(conversationDisplayName, conversationId) ==
    LET rawIdentifier == conversationId
    IN IF /\ conversationDisplayName # rawIdentifier
          /\ ~Includes(conversationDisplayName, rawIdentifier)
          /\ ~Includes(rawIdentifier, conversationDisplayName)
       THEN IF IncludesAt(rawIdentifier)
            THEN << "iMessage: " >> \o conversationDisplayName \o << " (" >>
                     \o rawIdentifier \o << ")" >>
            ELSE << "iMessage: " >> \o conversationDisplayName \o << " (" >>
                     \o formatPhoneForSubject(rawIdentifier) \o << ")" >>
       ELSE << "iMessage: " >> \o conversationDisplayName

\* str.replace(/[^a-zA-Z0-9]/g, '')
CleanId(s) == SelectSeq(s, LAMBDA ch : ch \in Alnum)

generateMessageId(messageGuid, conversationId) ==
    << "<imessage-" >> \o CleanId(conversationId) \o << "-" >>
        \o CleanId(messageGuid) \o << "@imessage-sync.local>" >>

\* [...messages].sort((a, b) => a.date.getTime() - b.date.getTime()), stable
RECURSIVE InsertByDate(_, _)
InsertByDate(sorted, m) ==
    IF sorted = << >> THEN << m >>
    ELSE IF sorted[Len(sorted)].date <= m.date THEN Append(sorted, m)
    ELSE Append(InsertByDate(SubSeq(sorted, 1, Len(sorted) - 1), m), sorted[Len(sorted)])

Unsorted(messages) == messages

RECURSIVE SortByDate(_)
SortByDate(messages) ==
    IF messages = << >> THEN << >>
    ELSE InsertByDate(SortByDate(SubSeq(messages, 1, Len(messages) - 1)),
                      messages[Len(messages)])

ReferencesAll(previousMessageId, allMessageIds) ==
    IF IsDefined(previousMessageId) THEN Some(allMessageIds) ELSE Undefined

\* references: previousMessageId ? allMessageIds.slice(0, -1) : undefined
ReferencesFor(previousMessageId, allMessageIds) ==
    IF IsDefined(previousMessageId)
    THEN Some(SubSeq(allMessageIds, 1, Len(allMessageIds) - 1))
    ELSE Undefined

\* the for loop of convertConversationToEmail, from index i on
RECURSIVE ConvertLoop(_, _, _, _, _, _, _)
ConvertLoop(sortedMessages, conversationDisplayName, conversationId, i, emails, previousMessageId, allMessageIds) ==
    IF i > Len(sortedMessages) THEN emails
    ELSE LET message == sortedMessages[i]
             messageId == generateMessageId(message.guid, conversationId)
             ids == Append(allMessageIds, messageId)
             subject == IF i = 1
                        THEN createEmailSubject(conversationDisplayName, conversationId)
                        ELSE << "Re: " >> \o createEmailSubject(conversationDisplayName,
                                                                conversationId)
             email == [ subject |-> subject,
                        messageId |-> messageId,
                        inReplyTo |-> previousMessageId,
                        references |-> ReferencesFor(previousMessageId, ids),
                        conversationId |-> conversationId,
                        body |-> message ]
         IN ConvertLoop(sortedMessages, conversationDisplayName, conversationId, i + 1,
                        Append(emails, email), Some(messageId), ids)

ChainedToEarlierBatch(messages, conversationDisplayName, conversationId) ==
    IF Len(messages) = 0 THEN << >>
    ELSE ConvertLoop(SortByDate(messages), conversationDisplayName, conversationId, 1,
                     << >>, Some(<< "<imessage-earlier@imessage-sync.local>" >>),
                     << << "<imessage-earlier@imessage-sync.local>" >> >>)

convertConversationToEmail(messages, conversationDisplayName, conversationId) ==
    IF Len(messages) = 0 THEN << >>
    ELSE ConvertLoop(SortByDate(messages), conversationDisplayName, conversationId, 1,
                     << >>, Undefined, << >>)

\* ------------------------------------------------------------------------
\* ContactResolver and ContactCache (src/src/services/ContactResolver.ts)
\* ------------------------------------------------------------------------
\* email.toLowerCase()
toLowerCase(email) == [ j \in DOMAIN email |-> IF email[j] = "A" THEN "a" ELSE email[j] ]

\* ContactCache.normalizePhoneNumber: null or the key of the phone index
normalizePhoneNumber(phone) ==
    LET digits == DigitsOf(phone)
    IN IF phone = << >> THEN Undefined
       ELSE IF Len(digits) < 7 THEN Undefined
       ELSE IF Len(digits) = 10 THEN Some(<< "+", "1" >> \o digits)
       ELSE IF Len(digits) = 11 /\ digits[1] = "1" THEN Some(<< "+" >> \o digits)
       ELSE IF Len(digits) > 11 THEN Some(<< "+" >> \o digits)
       ELSE IF StartsWithPlus(phone) THEN Some(<< "+" >> \o digits)
       ELSE Some(<< "+", "1" >> \o digits)

\* new Map()
EmptyMap == [ key \in {} |-> << >> ]

\* map.get(key) || null
GetOrNull(index, key) ==
    IF key \in DOMAIN index /\ index[key] # << >> THEN Some(index[key]) ELSE Undefined

\* ContactCache.lookupByPhone
lookupByPhone(cache, phoneNumber) ==
    IF ~IsDefined(cache) THEN Undefined
    ELSE LET normalized == normalizePhoneNumber(phoneNumber)
         IN IF ~IsDefined(normalized) THEN Undefined
            ELSE GetOrNull(cache[1].phoneIndex, normalized[1])

\* ContactCache.lookupByEmail
lookupByEmail(cache, email) ==
    IF ~IsDefined(cache) THEN Undefined
    ELSE GetOrNull(cache[1].emailIndex, toLowerCase(email))

\* the loops of syncContacts that build phoneIndex and emailIndex: a later
\* contact overwrites an earlier one with the same key
RECURSIVE BuildIndexes(_, _, _)
BuildIndexes(contacts, phoneIndex, emailIndex) ==
    IF contacts = << >> THEN [ phoneIndex |-> phoneIndex, emailIndex |-> emailIndex ]
    ELSE LET contact == Head(contacts)
             keys == { normalizePhoneNumber(contact.phones[j])[1] :
                         j \in { i \in DOMAIN contact.phones :
                                    IsDefined(normalizePhoneNumber(contact.phones[i])) } }
             mails == { toLowerCase(contact.emails[j]) : j \in DOMAIN contact.emails }
         IN BuildIndexes(Tail(contacts),
                [ key \in DOMAIN phoneIndex \cup keys |->
                    IF key \in keys THEN contact.name ELSE phoneIndex[key] ],
                [ key \in DOMAIN emailIndex \cup mails |->
                    IF key \in mails THEN contact.name ELSE emailIndex[key] ])

\* ContactResolver.formatPhoneNumber
formatPhoneNumber(phone) ==
    LET digits == DigitsOf(phone)
    IN IF Len(digits) = 10
       THEN << "+", "1", " ", "(" >> \o SubSeq(digits, 1, 3) \o << ")", " " >>
                \o SubSeq(digits, 4, 6) \o << "-" >> \o SubSeq(digits, 7, 10)
       ELSE IF Len(digits) = 11 /\ digits[1] = "1"
       THEN << "+", "1", " ", "(" >> \o SubSeq(digits, 2, 4) \o << ")", " " >>
                \o SubSeq(digits, 5, 7) \o << "-" >> \o SubSeq(digits, 8, 11)
       ELSE IF Len(digits) > 10
       THEN IF StartsWithPlus(phone) THEN phone ELSE << "+" >> \o phone
       ELSE phone

\* ContactResolver.formatIdentifier
formatIdentifier(identifier) ==
    IF IncludesAt(identifier) THEN identifier ELSE formatPhoneNumber(identifier)

\* the ContactInfo resolveContact builds for a display name
ContactInfoFor(identifier, displayName) ==
    [ displayName |-> displayName,
      phoneNumber |-> IF IncludesAt(identifier) THEN Undefined ELSE Some(identifier),
      email |-> IF IncludesAt(identifier) THEN Some(identifier) ELSE Undefined ]

\* new ContactResolver(): no contactCache entry, the manual contacts of
\* contacts-config.json (none here), a ContactCache whose cache is null
NewContactResolver ==
    [ contactCache |-> EmptyMap, manualContacts |-> EmptyMap, globalContactCache |-> Undefined,
      returned |-> Undefined ]

ManualBeforeGlobal(resolver, identifier) ==
    LET found == IF IncludesAt(identifier)
                 THEN lookupByEmail(resolver.globalContactCache, identifier)
                 ELSE lookupByPhone(resolver.globalContactCache, identifier)
        info == IF identifier \in DOMAIN resolver.contactCache
                THEN resolver.contactCache[identifier]
                ELSE IF identifier \in DOMAIN resolver.manualContacts
                THEN ContactInfoFor(identifier, resolver.manualContacts[identifier])
                ELSE IF IsDefined(found) THEN ContactInfoFor(identifier, found[1])
                ELSE ContactInfoFor(identifier, formatIdentifier(identifier))
    IN [ resolver EXCEPT
           !.contactCache = [ id \in DOMAIN @ \cup { identifier } |->
                                IF id = identifier THEN info ELSE @[id] ],
           !.returned = Some([ identifier |-> identifier, info |-> info ]) ]

\* ContactResolver.resolveContact: the resolver after the call; returned holds
\* the ContactInfo of the call
resolveContact(resolver, identifier) ==
    LET displayName == IF IncludesAt(identifier)
                       THEN lookupByEmail(resolver.globalContactCache, identifier)
                       ELSE lookupByPhone(resolver.globalContactCache, identifier)
        info == IF identifier \in DOMAIN resolver.contactCache
                THEN resolver.contactCache[identifier]
                ELSE IF IsDefined(displayName) THEN ContactInfoFor(identifier, displayName[1])
                ELSE IF identifier \in DOMAIN resolver.manualContacts
                THEN ContactInfoFor(identifier, resolver.manualContacts[identifier])
                ELSE ContactInfoFor(identifier, formatIdentifier(identifier))
    IN [ resolver EXCEPT
           !.contactCache = [ id \in DOMAIN @ \cup { identifier } |->
                                IF id = identifier THEN info ELSE @[id] ],
           !.returned = Some([ identifier |-> identifier, info |-> info ]) ]

\* ContactResolver.addManualContact
addManualContact(resolver, identifier, displayName) ==
    [ resolver EXCEPT
        !.manualContacts = [ id \in DOMAIN @ \cup { identifier } |->
                               IF id = identifier THEN displayName ELSE @[id] ],
        !.contactCache = [ id \in DOMAIN @ |->
                             IF id = identifier
                             THEN [ @[id] EXCEPT !.displayName = displayName ]
                             ELSE @[id] ],
        !.returned = Undefined ]

\* ContactResolver.removeManualContact
removeManualContact(resolver, identifier) ==
    [ resolver EXCEPT
        !.manualContacts = [ id \in DOMAIN @ \ { identifier } |-> @[id] ],
        !.contactCache = [ id \in DOMAIN @ \ { identifier } |-> @[id] ],
        !.returned = Undefined ]

\* ------------------------------------------------------------------------
\* ConfigManager (part_000, lines 1-330)
\* ------------------------------------------------------------------------
\* getDefaultConfig(): no tracked conversations, no lastGlobalSync
getDefaultConfig ==
    [ trackedConversations |-> << >>, lastGlobalSync |-> Undefined ]

\* Date.prototype.toISOString and new Date(isoString)
toISOString(d) == << "iso", d >>
parseDate(str) == str[2]

\* serializeConfig: every Date becomes its ISO string, undefined stays undefined
serializeConfig(config) ==
    [ lastGlobalSync |->
          IF IsDefined(config.lastGlobalSync)
          THEN Some(toISOString(config.lastGlobalSync[1])) ELSE Undefined,
      trackedConversations |->
          [ i \in DOMAIN config.trackedConversations |->
              LET conv == config.trackedConversations[i]
              IN [ chatIdentifier |-> conv.chatIdentifier,
                   addedDate |-> toISOString(conv.addedDate),
                   lastSyncDate |->
                       IF IsDefined(conv.lastSyncDate)
                       THEN Some(toISOString(conv.lastSyncDate[1])) ELSE Undefined ] ] ]

\* deserializeConfig: ISO strings back to Date objects
deserializeConfig(rawConfig) ==
    [ lastGlobalSync |->
          IF IsDefined(rawConfig.lastGlobalSync)
          THEN Some(parseDate(rawConfig.lastGlobalSync[1])) ELSE Undefined,
      trackedConversations |->
          [ i \in DOMAIN rawConfig.trackedConversations |->
              LET conv == rawConfig.trackedConversations[i]
              IN [ chatIdentifier |-> conv.chatIdentifier,
                   addedDate |-> parseDate(conv.addedDate),
                   lastSyncDate |->
                       IF IsDefined(conv.lastSyncDate)
                       THEN Some(parseDate(conv.lastSyncDate[1])) ELSE Undefined ] ] ]

\* a ConfigManager that has loaded nothing yet (config = null, lastModified = null)
NewConfigManager == [ config |-> Undefined, lastModified |-> Undefined ]

\* fs.writeFile(configPath, JSON.stringify(serialized)) followed by fs.stat:
\* the file holds the new text and a later modification time
writeFile(f, serialized) ==
    [ exists |-> TRUE, mtime |-> f.mtime + 1, raw |-> serialized ]

\* saveConfig(config) when the write succeeds: result is the manager and the file
saveConfig(config, f) ==
    LET written == writeFile(f, serializeConfig(config))
    IN [ mgr |-> [ config |-> Some(config), lastModified |-> Some(written.mtime) ],
         file |-> written ]

\* loadConfig(): the cached object while the file's mtime is not newer than the
\* one remembered; otherwise the file's content; the default configuration,
\* saved at once, when the file cannot be stat'ed
loadConfig(mgr, f) ==
    IF f.exists
    THEN IF IsDefined(mgr.config) /\ IsDefined(mgr.lastModified)
            /\ f.mtime <= mgr.lastModified[1]
         THEN [ config |-> mgr.config[1], mgr |-> mgr, file |-> f ]
         ELSE LET config == deserializeConfig(f.raw)
              IN [ config |-> config,
                   mgr |-> [ config |-> Some(config), lastModified |-> Some(f.mtime) ],
                   file |-> f ]
    ELSE LET saved == saveConfig(getDefaultConfig, f)
         IN [ config |-> getDefaultConfig, mgr |-> saved.mgr, file |-> saved.file ]

\* findIndex(tracked => tracked.chatIdentifier === chatIdentifier), 0 when absent
FindIndex(tracked, chatIdentifier) ==
    IF \E i \in DOMAIN tracked : tracked[i].chatIdentifier = chatIdentifier
    THEN CHOOSE i \in DOMAIN tracked :
             /\ tracked[i].chatIdentifier = chatIdentifier
             /\ \A j \in 1 .. (i - 1) : tracked[j].chatIdentifier # chatIdentifier
    ELSE 0

AlwaysPush(config, chatIdentifier, t) ==
    [ config EXCEPT !.trackedConversations =
          Append(@, [ chatIdentifier |-> chatIdentifier, addedDate |-> t,
                      lastSyncDate |-> Some(t) ]) ]

\* addTrackedConversation: the configuration after the add, before the save
addTrackedConversation(config, chatIdentifier, t) ==
    LET existingIndex == FindIndex(config.trackedConversations, chatIdentifier)
        trackedConversation ==
            [ chatIdentifier |-> chatIdentifier, addedDate |-> t, lastSyncDate |-> Some(t) ]
    IN [ config EXCEPT !.trackedConversations =
             IF existingIndex > 0
             THEN [ @ EXCEPT ![existingIndex] = trackedConversation ]
             ELSE Append(@, trackedConversation) ]

\* removeTrackedConversation: the configuration after the filter, before the save
removeTrackedConversation(config, chatIdentifier) ==
    [ config EXCEPT !.trackedConversations =
          SelectSeq(@, LAMBDA tracked : tracked.chatIdentifier # chatIdentifier) ]

\* the loop of batchUpdateSync over conversationUpdates, from index k on
RECURSIVE ApplyUpdates(_, _, _)
ApplyUpdates(tracked, conversationUpdates, k) ==
    IF k > Len(conversationUpdates) THEN tracked
    ELSE LET update == conversationUpdates[k]
             idx == FindIndex(tracked, update.chatIdentifier)
         IN ApplyUpdates(
                IF idx > 0
                THEN [ tracked EXCEPT ![idx].lastSyncDate = Some(update.lastSyncDate) ]
                ELSE tracked,
                conversationUpdates, k + 1)

\* batchUpdateSync up to its saveConfig call: the configuration object after
\* the conversation updates and the global settings were applied to it
batchUpdateSync(config, conversationUpdates, lastGlobalSync) ==
    [ trackedConversations |->
          ApplyUpdates(config.trackedConversations, conversationUpdates, 1),
      lastGlobalSync |-> Some(lastGlobalSync) ]

\* the watermark (lastSyncDate) a configuration holds for each chat identifier
WatermarksOf(config) ==
    [ c \in ChatIds |->
        LET i == FindIndex(config.trackedConversations, c)
        IN IF i > 0 THEN config.trackedConversations[i].lastSyncDate ELSE Undefined ]

\* ------------------------------------------------------------------------
\* State
\* ------------------------------------------------------------------------
VARIABLES
    now,           \* wall clock, Date.now()
    archive,       \* the Messages database: a set of messages
    file,          \* imessage-sync-config.json: exists (it can be stat'ed, read and
                   \* parsed), mtime, raw (serialized)
    configManager, \* the service's ConfigManager: config, lastModified
    started,       \* the service command has run start()
    cronJob,       \* SyncService.cronJob is scheduled
    gmailService,  \* SyncService.gmailService: "null", "ready" or "uninitialized"
    isRunning,     \* SyncService.isRunning
    run,           \* per invocation of runSync in flight: its locals and position
    cycles,        \* number of runSync invocations so far
    lastLog,       \* the last line SyncService.log wrote (verbose logging on)
    transportLog,  \* the emails handed to gmailService.sendEmail
    lastRun,       \* what the last finished runSync invocation read and did
    contactResolver \* a ContactResolver: contactCache, manualContacts,
                   \* globalContactCache (its cache field), and what the last
                   \* resolveContact returned

vars == << now, archive, file, configManager, started, cronJob, gmailService,
           isRunning, run, cycles, lastLog, transportLog, lastRun, contactResolver >>

NoTimes == [ c \in ChatIds |-> Undefined ]

IdleRun ==
    [ pc |-> "idle", n |-> 0, tracked |-> << >>, i |-> 0, pendingFiles |-> << >>,
      emails |-> << >>, k |-> 0, convNew |-> 0,
      conversationUpdates |-> << >>, pendingWrite |-> getDefaultConfig,
      \* history of the invocation, read by the properties only
      snap |-> {}, batch |-> {}, maxDate |-> NoTimes, collectedAt |-> NoTimes,
      readBy |-> NoTimes, archAtLoad |-> 0, storeBefore |-> NoTimes, failed |-> {} ]

\* no runSync invocation has finished yet
NoRun ==
    [ n |-> 0, commit |-> "none", readBy |-> NoTimes, archAtLoad |-> 0, gmailService |-> "null" ]

\* no configuration file yet
NoFile == [ exists |-> FALSE, mtime |-> 0, raw |-> serializeConfig(getDefaultConfig) ]

\* the configuration after "sync --add" of ChatA at time 0 and of ChatB at time 1
InitialConfig ==
    addTrackedConversation(addTrackedConversation(getDefaultConfig, ChatA, 0), ChatB, 1)

Init ==
    /\ now = 1
    /\ archive = {}
    /\ file = saveConfig(InitialConfig, NoFile).file
    /\ configManager = NewConfigManager
    /\ started = FALSE
    /\ cronJob = FALSE
    /\ gmailService = "null"
    /\ isRunning = FALSE
    /\ run = [ s \in Slots |-> IdleRun ]
    /\ cycles = 0
    /\ lastLog = "none"
    /\ transportLog = {}
    /\ lastRun = NoRun
    /\ contactResolver = NewContactResolver

\* ------------------------------------------------------------------------
\* Environment: the clock and the Messages database
\* ------------------------------------------------------------------------
\* the environment is followed while a sync is running or can still be started
Observed ==
    \/ cycles < MaxCycles /\ (cronJob \/ ~started)
    \/ \E s \in Slots : run[s].pc # "idle"

AdvanceTime ==
    /\ now < MaxTime
    /\ Observed
    /\ now' = now + 1
    /\ UNCHANGED << contactResolver, archive, file, configManager, started, cronJob, gmailService,
                    isRunning, run, cycles, lastLog, transportLog, lastRun >>

\* a message is sent or received: it enters the database with the current time
MessageArrives(chat, isFromMe, fl) ==
    /\ Cardinality(archive) < MaxMsgs
    /\ Observed
    /\ archive' = archive \cup
           { [ id |-> Cardinality(archive) + 1, chatIdentifier |-> chat, date |-> now,
               isFromMe |-> isFromMe, file |-> fl ] }
    /\ UNCHANGED << contactResolver, now, file, configManager, started, cronJob, gmailService,
                    isRunning, run, cycles, lastLog, transportLog, lastRun >>

\* ------------------------------------------------------------------------
\* SyncService (service.ts)
\* ------------------------------------------------------------------------
\* conv.displayName, stored when the conversation was added: the name of the
\* contact for +1, the formatted identifier where no contact was found
DisplayNameOf(chat) == IF chat = ChatA THEN Ann ELSE formatIdentifier(chat)

\* ------------------------------------------------------------------------
\* a slot for the locals of one more runSync invocation
FreeSlots == { s \in Slots : run[s].pc = "idle" }
FreeSlot == CHOOSE s \in FreeSlots : \A t \in FreeSlots : s <= t
InFlight == { s \in Slots : run[s].pc # "idle" }

\* runSync up to its first await: isRunning = true, then loadConfig is pending
EnterRunSync ==
    /\ cycles < MaxCycles
    /\ FreeSlots # {}
    /\ run' = [ run EXCEPT ![FreeSlot] = [ IdleRun EXCEPT !.pc = "loadConfig", !.n = cycles + 1 ] ]
    /\ isRunning' = TRUE
    /\ cycles' = cycles + 1

\* this.gmailService after the initialization block of start(): null when
\* email is disabled; otherwise the object constructed before initialize() is
\* awaited, which stays assigned when initialize() throws for missing
\* credentials and then has no transporter
GmailServiceAfterInit(emailEnabled, credentials) ==
    IF ~emailEnabled THEN "null"
    ELSE IF credentials THEN "ready" ELSE "uninitialized"

\* the service command and start(): the configuration is loaded, the command
\* exits when nothing is tracked, Gmail is initialized (or not), the cron job is
\* scheduled and the initial sync is started
ServiceStart(emailEnabled, credentials) ==
    /\ ~started
    /\ LET loaded == loadConfig(configManager, file)
       IN /\ Len(loaded.config.trackedConversations) > 0
          /\ configManager' = loaded.mgr
    /\ started' = TRUE
    /\ cronJob' = TRUE
    /\ gmailService' = GmailServiceAfterInit(emailEnabled, credentials)
    /\ EnterRunSync
    /\ lastLog' = "Running initial sync"
    /\ UNCHANGED << contactResolver, now, archive, file, transportLog, lastRun >>

NeverRunning == FALSE

\* the guard of the cron callback: if (this.isRunning)
PreviousSyncStillRunning == isRunning

\* the cron callback while a sync is running: a warning is logged, nothing else
CronTickSkipped ==
    /\ cronJob
    /\ PreviousSyncStillRunning
    /\ lastLog' = "Previous sync still running, skipping this interval"
    /\ UNCHANGED << contactResolver, now, archive, file, configManager, started, cronJob, gmailService,
                    isRunning, run, cycles, transportLog, lastRun >>

\* the cron callback otherwise: await this.runSync()
CronTickRuns ==
    /\ cronJob
    /\ ~PreviousSyncStillRunning
    /\ EnterRunSync
    /\ UNCHANGED << contactResolver, now, archive, file, configManager, started, cronJob, gmailService,
                    lastLog, transportLog, lastRun >>

\* shutdown() on SIGINT or SIGTERM: the cron job is stopped and process.exit(0)
\* ends the process at once, with everything it held in memory
Shutdown ==
    /\ started
    /\ cronJob
    /\ cronJob' = FALSE
    /\ run' = [ s \in Slots |-> IdleRun ]
    /\ isRunning' = FALSE
    /\ configManager' = NewConfigManager
    /\ gmailService' = "null"
    /\ lastLog' = "Service stopped"
    /\ UNCHANGED << contactResolver, now, archive, file, started, cycles, transportLog, lastRun >>

StaysSetWhenThrown(thrown) == thrown

\* finally { this.isRunning = false }: runs on return and after the catch
IsRunningFinally(thrown) == FALSE

\* what the history keeps of a finished invocation
FinishedRun(r, commit) ==
    [ n |-> r.n, commit |-> commit, readBy |-> r.readBy, archAtLoad |-> r.archAtLoad,
      gmailService |-> gmailService ]

\* runSync after loadConfig resolved: nothing tracked ends the invocation (the
\* finally block clears isRunning), otherwise the loop starts at the first entry
RunSyncLoadConfig(s) ==
    /\ run[s].pc = "loadConfig"
    /\ LET loaded == loadConfig(configManager, file)
           tracked == loaded.config.trackedConversations
           r == [ run[s] EXCEPT !.readBy = WatermarksOf(loaded.config),
                                !.archAtLoad = Cardinality(archive) ]
       IN /\ configManager' = loaded.mgr
          /\ file' = loaded.file
          /\ IF Len(tracked) = 0
             THEN /\ run' = [ run EXCEPT ![s] = IdleRun ]
                  /\ isRunning' = IsRunningFinally(FALSE)
                  /\ lastLog' = "No conversations to sync"
                  /\ lastRun' = FinishedRun(r, "none")
             ELSE /\ run' = [ run EXCEPT ![s] =
                        [ r EXCEPT !.pc = "export", !.tracked = tracked, !.i = 1 ] ]
                  /\ lastLog' = "Starting sync"
                  /\ UNCHANGED << contactResolver, isRunning, lastRun >>
    /\ UNCHANGED << contactResolver, now, archive, started, cronJob, gmailService, cycles, transportLog >>

\* the html files of an export filtered to one conversation: one per chat file
\* that holds a message, each with its messages in database order
ExportedFiles(chat) ==
    LET msgs == { m \in archive : m.chatIdentifier = chat }
        htmlFiles == { m.file : m \in msgs }
        ordered == SeqOfSet({ [ id |-> f ] : f \in htmlFiles })
    IN [ j \in DOMAIN ordered |-> SeqOfSet({ m \in msgs : m.file = ordered[j].id }) ]

\* syncConversation up to the end of exportMessages.  A failed export returns 0
\* after removing the temp directory.
SyncConversationExport(s, success) ==
    /\ run[s].pc = "export"
    /\ LET conv == run[s].tracked[run[s].i]
       IN run' = [ run EXCEPT ![s] =
              [ @ EXCEPT !.pc = "parse", !.convNew = 0, !.batch = {},
                         !.failed = IF success THEN @ ELSE @ \cup { conv.chatIdentifier },
                         !.pendingFiles =
                             IF success THEN ExportedFiles(conv.chatIdentifier) ELSE << >>,
                         !.snap =
                             IF success
                             THEN { m \in archive : m.chatIdentifier = conv.chatIdentifier }
                             ELSE {} ] ]
    /\ lastLog' = IF success THEN "Syncing" ELSE "Export failed"
    /\ UNCHANGED << contactResolver, now, archive, file, configManager, started, cronJob, gmailService,
                    isRunning, cycles, transportLog, lastRun >>

IsNewInclusive(conv, msg) ==
    ~IsDefined(conv.lastSyncDate) \/ msg.date >= conv.lastSyncDate[1]

NothingNewWithoutWatermark(conv, msg) ==
    IsDefined(conv.lastSyncDate) /\ msg.date > conv.lastSyncDate[1]

\* const isNew = !conv.lastSyncDate || msg.date > conv.lastSyncDate
IsNew(conv, msg) ==
    ~IsDefined(conv.lastSyncDate) \/ msg.date > conv.lastSyncDate[1]

AllDirections(newMessages) == newMessages

\* newMessages.filter(msg => !msg.isFromMe)
NewReceivedMessages(newMessages) ==
    SelectSeq(newMessages, LAMBDA msg : ~msg.isFromMe)

MaxOf(S) == CHOOSE x \in S : \A y \in S : y <= x

\* totalNewMessages += newMessages.length
CountedMessages(newMessages) == Len(newMessages)

\* readdir, parseExportedData or the handling of a file throws: the catch
\* around the parsing logs the error, removes the temp directory and returns 0
SyncConversationParseFails(s) ==
    /\ run[s].pc = "parse"
    /\ run[s].pendingFiles # << >>
    /\ run' = [ run EXCEPT ![s] =
           [ @ EXCEPT !.pendingFiles = << >>, !.convNew = 0,
                      !.failed = @ \cup { run[s].tracked[run[s].i].chatIdentifier } ] ]
    /\ lastLog' = "Failed to parse exported messages"
    /\ UNCHANGED << contactResolver, now, archive, file, configManager, started, cronJob, gmailService,
                    isRunning, cycles, transportLog, lastRun >>

\* one html file of the export: parseExportedData gives every message a fresh
\* random guid; the new messages are filtered out and the received ones among
\* them converted to emails when a Gmail service exists
SyncConversationParse(s, guids) ==
    /\ run[s].pc = "parse"
    /\ run[s].pendingFiles # << >>
    /\ DOMAIN guids = DOMAIN Head(run[s].pendingFiles)
    /\ LET conv == run[s].tracked[run[s].i]
           chat == conv.chatIdentifier
           parsed == Head(run[s].pendingFiles)
           messages == [ j \in DOMAIN parsed |->
                           [ guid |-> guids[j], id |-> parsed[j].id, date |-> parsed[j].date,
                             isFromMe |-> parsed[j].isFromMe ] ]
           newMessages == SelectSeq(messages, LAMBDA msg : IsNew(conv, msg))
           newReceivedMessages == NewReceivedMessages(newMessages)
           emails == IF Len(newReceivedMessages) > 0 /\ gmailService # "null"
                     THEN convertConversationToEmail(newReceivedMessages,
                                                     DisplayNameOf(chat), chat)
                     ELSE << >>
           dates == { newMessages[j].date : j \in DOMAIN newMessages }
                       \cup Range(run[s].maxDate[chat])
       IN /\ run' = [ run EXCEPT ![s] =
                 [ @ EXCEPT !.pc = IF emails # << >> THEN "send" ELSE "parse",
                            !.pendingFiles = Tail(@),
                            !.emails = emails,
                            !.k = IF emails # << >> THEN 1 ELSE 0,
                            !.convNew = @ + CountedMessages(newMessages),
                            !.batch = @ \cup { newReceivedMessages[j].id :
                                                 j \in DOMAIN newReceivedMessages },
                            !.maxDate[chat] =
                                IF dates = {} THEN Undefined ELSE Some(MaxOf(dates)) ] ]
          /\ lastLog' = IF Len(newReceivedMessages) > 0 /\ gmailService = "null"
                        THEN "[SIMULATION] Would send" ELSE "Filtered"
    /\ UNCHANGED << contactResolver, now, archive, file, configManager, started, cronJob, gmailService,
                    isRunning, cycles, transportLog, lastRun >>

RetryFailed(k, delivered) == IF delivered THEN k + 1 ELSE k

\* "for (const email of emails)" with the try/catch inside the loop body: the
\* loop goes on to the next email whether sendEmail resolved or threw
NextEmail(k, delivered) == k + 1

\* one iteration of "for (const email of emails)": sendEmail resolves or throws
\* (it always throws without a transporter); a throw is caught and logged
SyncConversationSend(s, delivered) ==
    /\ run[s].pc = "send"
    /\ delivered => gmailService = "ready"
    /\ LET email == run[s].emails[run[s].k]
       IN transportLog' = transportLog \cup
              { [ n |-> run[s].n, chatIdentifier |-> email.conversationId,
                  id |-> email.body.id, isFromMe |-> email.body.isFromMe ] }
    /\ LET next == NextEmail(run[s].k, delivered)
       IN run' = [ run EXCEPT ![s] =
              [ @ EXCEPT !.k = IF next > Len(run[s].emails) THEN 0 ELSE next,
                         !.emails = IF next > Len(run[s].emails) THEN << >> ELSE @,
                         !.pc = IF next > Len(run[s].emails) THEN "parse" ELSE "send" ] ]
    /\ lastLog' = IF delivered THEN "Email sent" ELSE "Failed to send email"
    /\ UNCHANGED << contactResolver, now, archive, file, configManager, started, cronJob, gmailService,
                    isRunning, cycles, lastRun >>

WallClock(t) == t

CommitAfterFirst(i, n) == "commit"

\* const syncTimestamp = new Date(Date.now() - 5000)
SyncTimestamp(t) == t - SyncBuffer

\* "for (const conv of tracked)": the next conversation is exported; the batched
\* update follows the loop
AfterConversation(i, n) == IF i = n THEN "commit" ELSE "export"

\* syncConversation returns (all files parsed, temp directory removed) and the
\* body of runSync's loop runs: an update is collected when newMessages > 0
RunSyncCollect(s) ==
    /\ run[s].pc = "parse"
    /\ run[s].pendingFiles = << >>
    /\ LET conv == run[s].tracked[run[s].i]
           chat == conv.chatIdentifier
           newMessages == run[s].convNew
       IN /\ run' = [ run EXCEPT ![s] =
                 [ @ EXCEPT !.pc = AfterConversation(run[s].i, Len(run[s].tracked)),
                            !.i = @ + 1,
                            !.convNew = 0,
                            !.snap = {},
                            !.batch = {},
                            !.conversationUpdates =
                                IF newMessages > 0
                                THEN Append(@, [ chatIdentifier |-> chat,
                                                 lastSyncDate |-> SyncTimestamp(now) ])
                                ELSE @,
                            !.collectedAt[chat] =
                                IF newMessages > 0 THEN Some(now) ELSE Undefined ] ]
          /\ lastLog' = IF newMessages > 0 THEN "new message(s)" ELSE "no new messages"
    /\ UNCHANGED << contactResolver, now, archive, file, configManager, started, cronJob, gmailService,
                    isRunning, cycles, transportLog, lastRun >>

\* the end of runSync's loop ("Sync completed" is logged) and batchUpdateSync
\* up to the await of fs.writeFile: loadConfig, then the updates and
\* lastGlobalSync are applied to the object this.config refers to
BatchUpdateSyncApply(s) ==
    /\ run[s].pc = "commit"
    /\ LET loaded == loadConfig(configManager, file)
           config == batchUpdateSync(loaded.config, run[s].conversationUpdates, now)
       IN /\ configManager' = [ loaded.mgr EXCEPT !.config = Some(config) ]
          /\ file' = loaded.file
          /\ run' = [ run EXCEPT ![s] =
                 [ @ EXCEPT !.pc = "write", !.pendingWrite = config,
                            !.storeBefore = WatermarksOf(loaded.config) ] ]
    /\ lastLog' = "Sync completed"
    /\ UNCHANGED << contactResolver, now, archive, started, cronJob, gmailService, isRunning, cycles,
                    transportLog, lastRun >>

\* fs.writeFile resolves (the file is replaced and lastModified refreshed) or
\* throws (runSync's catch logs "Sync failed"); finally clears isRunning
BatchUpdateSyncWrite(s, written) ==
    /\ run[s].pc = "write"
    /\ LET fileAfter == IF written
                        THEN writeFile(file, serializeConfig(run[s].pendingWrite))
                        ELSE file
           mgrAfter == IF written
                       THEN [ configManager EXCEPT !.lastModified = Some(fileAfter.mtime) ]
                       ELSE configManager
       IN /\ file' = fileAfter
          /\ configManager' = mgrAfter
    /\ lastRun' = FinishedRun(run[s], IF written THEN "ok" ELSE "failed")
    /\ lastLog' = IF written THEN lastLog ELSE "Sync failed"
    /\ run' = [ run EXCEPT ![s] = IdleRun ]
    /\ isRunning' = IsRunningFinally(~written)
    /\ UNCHANGED << contactResolver, now, archive, started, cronJob, gmailService, cycles, transportLog >>

Next ==
    \/ AdvanceTime
    \/ \E chat \in ChatIds, isFromMe \in BOOLEAN, fl \in Files :
           MessageArrives(chat, isFromMe, fl)
    \/ \E emailEnabled \in BOOLEAN, credentials \in BOOLEAN :
           ServiceStart(emailEnabled, credentials)
    \/ CronTickSkipped
    \/ CronTickRuns
    \/ Shutdown
    \/ \E s \in Slots : RunSyncLoadConfig(s)
    \/ \E s \in Slots, success \in BOOLEAN : SyncConversationExport(s, success)
    \/ \E s \in Slots, guids \in UNION { [ 1 .. n -> GuidPool ] : n \in 1 .. MaxMsgs } :
           SyncConversationParse(s, guids)
    \/ \E s \in Slots : SyncConversationParseFails(s)
    \/ \E s \in Slots, delivered \in BOOLEAN : SyncConversationSend(s, delivered)
    \/ \E s \in Slots : RunSyncCollect(s)
    \/ \E s \in Slots : BatchUpdateSyncApply(s)
    \/ \E s \in Slots, written \in BOOLEAN : BatchUpdateSyncWrite(s, written)

Spec == Init /\ [][Next]_vars

\* ------------------------------------------------------------------------
\* convertConversationToEmail on its own: any batch of received messages, in
\* any order of dates, as the argument of one call
\* ------------------------------------------------------------------------
Batches ==
    UNION { [ 1 .. n -> [ guid : GuidPool, date : 0 .. MaxTime ] ] : n \in 1 .. MaxBatch }

ParsedBatch(b) ==
    [ j \in DOMAIN b |->
        [ guid |-> b[j].guid, id |-> j, date |-> b[j].date, isFromMe |-> FALSE ] ]

InitConvert ==
    /\ now = 1
    /\ archive = {}
    /\ file = saveConfig(InitialConfig, NoFile).file
    /\ configManager = NewConfigManager
    /\ started = FALSE
    /\ cronJob = FALSE
    /\ gmailService = "ready"
    /\ isRunning = FALSE
    /\ \E b \in Batches :
           run = [ s \in Slots |->
                     IF s = 1 THEN [ IdleRun EXCEPT !.pendingFiles = << ParsedBatch(b) >> ]
                     ELSE IdleRun ]
    /\ cycles = 0
    /\ lastLog = "none"
    /\ transportLog = {}
    /\ lastRun = NoRun
    /\ contactResolver = NewContactResolver

ConvertCall(conversationDisplayName, chat) ==
    /\ run[1].pendingFiles # << >>
    /\ run' = [ run EXCEPT ![1] =
           [ @ EXCEPT !.pendingFiles = << >>,
                      !.emails = convertConversationToEmail(Head(run[1].pendingFiles),
                                                            conversationDisplayName, chat) ] ]
    /\ UNCHANGED << contactResolver, now, archive, file, configManager, started, cronJob, gmailService,
                    isRunning, cycles, lastLog, transportLog, lastRun >>

\* the conversion of a later cycle: parseExportedData parses the same messages
\* again, each with a fresh random guid, and they are converted for a
\* conversation
ConvertCallNextCycle(guids, chat) ==
    /\ run[1].pc = "idle"
    /\ run[1].emails # << >>
    /\ run[2].emails = << >>
    /\ DOMAIN guids = DOMAIN run[1].emails
    /\ LET messages == [ j \in DOMAIN guids |->
                           [ run[1].emails[j].body EXCEPT !.guid = guids[j] ] ]
       IN run' = [ run EXCEPT ![2] =
              [ @ EXCEPT !.emails = convertConversationToEmail(messages, DisplayNameOf(chat),
                                                               chat) ] ]
    /\ UNCHANGED << contactResolver, now, archive, file, configManager, started, cronJob, gmailService,
                    isRunning, cycles, lastLog, transportLog, lastRun >>

\* "for (const email of emails)" is entered with the emails of the conversion
SendLoopBegins ==
    /\ run[1].pc = "idle"
    /\ run[1].emails # << >>
    /\ run[2].emails = << >>
    /\ run' = [ run EXCEPT ![1] = [ @ EXCEPT !.pc = "send", !.k = 1 ] ]
    /\ UNCHANGED << contactResolver, now, archive, file, configManager, started, cronJob, gmailService,
                    isRunning, cycles, lastLog, transportLog, lastRun >>

NextConvert ==
    \/ \E chat \in ConversationIds : ConvertCall(DisplayNameOf(chat), chat)
    \/ \E guids \in UNION { [ 1 .. n -> GuidPool ] : n \in 1 .. MaxBatch },
          chat \in ConversationIds : ConvertCallNextCycle(guids, chat)
    \/ SendLoopBegins
    \/ \E delivered \in BOOLEAN : SyncConversationSend(1, delivered)

SpecConvert == InitConvert /\ [][NextConvert]_vars

\* ------------------------------------------------------------------------
\* The subjects of a batch: convertConversationToEmail for any display name
\* and identifier
\* ------------------------------------------------------------------------
\* a ten-digit number as the Messages database may hold it
PhoneTen == << "5", "5", "5", "0", "1", "0", "0", "1", "2", "3" >>

SubjectIds == ConversationIds \cup { PhoneTen }

DisplayNames == { Ann, << "1" >> } \cup { formatIdentifier(chat) : chat \in SubjectIds }

NextSubject ==
    \E conversationDisplayName \in DisplayNames, chat \in SubjectIds :
        ConvertCall(conversationDisplayName, chat)

SpecSubject == InitConvert /\ [][NextSubject]_vars

\* ------------------------------------------------------------------------
\* The configuration file shared with the CLI: the service runs its cycles over
\* an empty archive while "sync" commands of another process add and remove
\* conversations and the file is at times unreadable
\* ------------------------------------------------------------------------
\* sync.ts: a command adds a conversation through its own ConfigManager
CliAddTracked(chat) ==
    /\ Observed
    /\ file.mtime < MaxWrites
    /\ LET loaded == loadConfig(NewConfigManager, file)
           config == addTrackedConversation(loaded.config, chat, now)
       IN file' = saveConfig(config, loaded.file).file
    /\ lastLog' = "Added to tracking"
    /\ UNCHANGED << contactResolver, now, archive, configManager, started, cronJob, gmailService,
                    isRunning, run, cycles, transportLog, lastRun >>

\* sync.ts: a command removes a conversation through its own ConfigManager
CliRemoveTracked(chat) ==
    /\ Observed
    /\ file.mtime < MaxWrites
    /\ LET loaded == loadConfig(NewConfigManager, file)
           config == removeTrackedConversation(loaded.config, chat)
       IN file' = saveConfig(config, loaded.file).file
    /\ lastLog' = "Removed from tracking"
    /\ UNCHANGED << contactResolver, now, archive, configManager, started, cronJob, gmailService,
                    isRunning, run, cycles, transportLog, lastRun >>

\* fs.stat, fs.readFile or JSON.parse of the file start to throw (permissions,
\* a writer in the middle of its write): the content is not lost
ConfigFileUnreadable ==
    /\ Observed
    /\ file.exists
    /\ file' = [ file EXCEPT !.exists = FALSE ]
    /\ UNCHANGED << contactResolver, now, archive, configManager, started, cronJob, gmailService,
                    isRunning, run, cycles, lastLog, transportLog, lastRun >>

\* the file can be read again
ConfigFileReadable ==
    /\ Observed
    /\ ~file.exists
    /\ file' = [ file EXCEPT !.exists = TRUE ]
    /\ UNCHANGED << contactResolver, now, archive, configManager, started, cronJob, gmailService,
                    isRunning, run, cycles, lastLog, transportLog, lastRun >>

NextStore ==
    \/ AdvanceTime
    \/ \E chat \in ChatIds : CliAddTracked(chat)
    \/ \E chat \in ChatIds : CliRemoveTracked(chat)
    \/ ConfigFileUnreadable
    \/ ConfigFileReadable
    \/ ServiceStart(FALSE, FALSE)
    \/ CronTickRuns
    \/ \E s \in Slots : RunSyncLoadConfig(s)
    \/ \E s \in Slots : SyncConversationExport(s, TRUE)
    \/ \E s \in Slots : RunSyncCollect(s)
    \/ \E s \in Slots : BatchUpdateSyncApply(s)
    \/ \E s \in Slots : BatchUpdateSyncWrite(s, TRUE)

SpecStore == Init /\ [][NextStore]_vars

\* ------------------------------------------------------------------------
\* An export that yields two html files for one conversation (the contact has
\* two chats): syncConversation handles the files one after the other
\* ------------------------------------------------------------------------
\* the received messages of one file, by their dates
FileContents == UNION { [ 1 .. n -> 1 .. MaxTime ] : n \in 1 .. MaxMsgs }

\* the parsed messages of file fl, numbered from first on
ParsedFile(dates, first, fl) ==
    [ j \in DOMAIN dates |->
        [ id |-> first + j - 1, chatIdentifier |-> ChatA, date |-> dates[j],
          isFromMe |-> FALSE, file |-> fl ] ]

InitFiles ==
    /\ now = MaxTime
    /\ archive = {}
    /\ file = saveConfig(InitialConfig, NoFile).file
    /\ configManager = NewConfigManager
    /\ started = TRUE
    /\ cronJob = FALSE
    /\ gmailService = "ready"
    /\ isRunning = TRUE
    /\ \E d1 \in FileContents, d2 \in FileContents :
           run = [ s \in Slots |->
                     IF s = 1
                     THEN [ IdleRun EXCEPT
                              !.pc = "parse", !.n = 1, !.i = 1,
                              !.tracked = << InitialConfig.trackedConversations[1] >>,
                              !.pendingFiles = << ParsedFile(d1, 1, 1),
                                                  ParsedFile(d2, Len(d1) + 1, 2) >> ]
                     ELSE IdleRun ]
    /\ cycles = MaxCycles
    /\ lastLog = "none"
    /\ transportLog = {}
    /\ lastRun = NoRun
    /\ contactResolver = NewContactResolver

NextFiles ==
    \/ \E s \in Slots, guids \in UNION { [ 1 .. n -> GuidPool ] : n \in 1 .. MaxMsgs } :
           SyncConversationParse(s, guids)
    \/ \E s \in Slots, delivered \in BOOLEAN : SyncConversationSend(s, delivered)

SpecFiles == InitFiles /\ [][NextFiles]_vars

\* ------------------------------------------------------------------------
\* Two services, one started with --verbose (invocation 1) and one without
\* (invocation 2), handle the same exported file of the same conversation and
\* hand their emails to a transport that delivers
\* ------------------------------------------------------------------------
\* new Date(timestampText) of a text that is no date: an Invalid Date, which
\* compares false with every date (it is counted as earlier than all of them)
InvalidDate == -1

\* this.verbose of the service that runs invocation s
Verbose(s) == s = 1

\* the parsed messages of one html file
VerboseFiles ==
    UNION { [ 1 .. n -> [ date : { InvalidDate } \cup 0 .. MaxTime, isFromMe : BOOLEAN ] ] :
              n \in 1 .. MaxMsgs }

InitVerbose ==
    /\ now = MaxTime
    /\ archive = {}
    /\ file = saveConfig(InitialConfig, NoFile).file
    /\ configManager = NewConfigManager
    /\ started = TRUE
    /\ cronJob = FALSE
    /\ gmailService = "ready"
    /\ isRunning = TRUE
    /\ \E b \in VerboseFiles :
           run = [ s \in Slots |->
                     [ IdleRun EXCEPT
                         !.pc = "parse", !.n = s, !.i = 1,
                         !.tracked = << InitialConfig.trackedConversations[2] >>,
                         !.pendingFiles =
                             << [ j \in DOMAIN b |->
                                    [ id |-> j, chatIdentifier |-> ChatB, date |-> b[j].date,
                                      isFromMe |-> b[j].isFromMe, file |-> 1 ] ] >> ] ]
    /\ cycles = MaxCycles
    /\ lastLog = "none"
    /\ transportLog = {}
    /\ lastRun = NoRun
    /\ contactResolver = NewContactResolver

\* the messages of a file are filtered: with this.verbose the filter callback
\* logs msg.date.toISOString(), which throws a RangeError for an Invalid Date,
\* and the catch around the parsing returns 0; otherwise (and without
\* this.verbose) the file is handled as in SyncConversationParse
SyncConversationParseVerbose(s, verbose) ==
    /\ run[s].pc = "parse"
    /\ run[s].pendingFiles # << >>
    /\ LET messages == Head(run[s].pendingFiles)
       IN IF verbose /\ \E j \in DOMAIN messages : messages[j].date = InvalidDate
          THEN SyncConversationParseFails(s)
          ELSE SyncConversationParse(s, [ j \in DOMAIN messages |-> << "0", ".", "a" >> ])

NextVerbose ==
    \/ \E s \in Slots : SyncConversationParseVerbose(s, Verbose(s))
    \/ \E s \in Slots : SyncConversationSend(s, TRUE)
    \/ \E s \in Slots : RunSyncCollect(s)

SpecVerbose == InitVerbose /\ [][NextVerbose]_vars

\* ------------------------------------------------------------------------
\* A ContactResolver on its own: identifiers are resolved while the contact
\* cache is loaded or refreshed and manual contacts are added and removed
\* ------------------------------------------------------------------------
PhoneEleven == << "+", "1" >> \o PhoneTen
ShortCode == << "1", "2", "3" >>
MailUpper == << "A", "@", "b" >>
Identifiers == { PhoneTen, PhoneEleven, ShortCode, MailUpper }

\* what downloadAllContacts can return: no contact, Ann with a phone number and
\* an e-mail address, a card without a name for the same phone number
AddressBooks ==
    { << >>,
      << [ name |-> Ann, phones |-> << PhoneEleven >>, emails |-> << MailUpper >> ] >>,
      << [ name |-> << >>, phones |-> << PhoneTen >>, emails |-> << >> ] >> }

\* the cache a ContactCache holds for an address book
CacheOf(book) ==
    Some([ contacts |-> book ] @@ BuildIndexes(book, EmptyMap, EmptyMap))

\* initialize(): the cache file exists and loadCache reads it
ContactCacheLoaded(book) ==
    /\ ~IsDefined(contactResolver.globalContactCache)
    /\ contactResolver' = [ contactResolver EXCEPT !.globalContactCache = CacheOf(book),
                                                    !.returned = Undefined ]
    /\ UNCHANGED << now, archive, file, configManager, started, cronJob, gmailService,
                    isRunning, run, cycles, lastLog, transportLog, lastRun >>

\* refreshContactsCache(): the contacts are downloaded again and the local
\* cache is cleared
RefreshContactsCache(book) ==
    /\ contactResolver' = [ contactResolver EXCEPT !.globalContactCache = CacheOf(book),
                                                    !.contactCache = EmptyMap,
                                                    !.returned = Undefined ]
    /\ UNCHANGED << now, archive, file, configManager, started, cronJob, gmailService,
                    isRunning, run, cycles, lastLog, transportLog, lastRun >>

AddManualContact(identifier, displayName) ==
    /\ contactResolver' = addManualContact(contactResolver, identifier, displayName)
    /\ UNCHANGED << now, archive, file, configManager, started, cronJob, gmailService,
                    isRunning, run, cycles, lastLog, transportLog, lastRun >>

RemoveManualContact(identifier) ==
    /\ contactResolver' = removeManualContact(contactResolver, identifier)
    /\ UNCHANGED << now, archive, file, configManager, started, cronJob, gmailService,
                    isRunning, run, cycles, lastLog, transportLog, lastRun >>

ResolveContact(identifier) ==
    /\ contactResolver' = resolveContact(contactResolver, identifier)
    /\ UNCHANGED << now, archive, file, configManager, started, cronJob, gmailService,
                    isRunning, run, cycles, lastLog, transportLog, lastRun >>

NextResolve ==
    \/ \E book \in AddressBooks : ContactCacheLoaded(book)
    \/ \E book \in AddressBooks : RefreshContactsCache(book)
    \/ \E identifier \in Identifiers : AddManualContact(identifier, Bob)
    \/ \E identifier \in Identifiers : RemoveManualContact(identifier)
    \/ \E identifier \in Identifiers : ResolveContact(identifier)

SpecResolve == Init /\ [][NextResolve]_vars

\* ------------------------------------------------------------------------
\* Properties
\* ------------------------------------------------------------------------
\* the watermarks the configuration file holds
StoredWatermarks == WatermarksOf(deserializeConfig(file.raw))

\* syncConversation has parsed every exported file of the current conversation
\* and is about to return to runSync
Returning(s) == run[s].pc = "parse" /\ run[s].pendingFiles = << >>

\* the conversations the configuration file tracks
StoredTracked ==
    LET tracked == deserializeConfig(file.raw).trackedConversations
    IN { tracked[i].chatIdentifier : i \in DOMAIN tracked }

\* C1: every incoming message of the exported conversation whose timestamp is
\* later than the watermark the cycle read minus the two-minute buffer is in
\* the cycle's batch of incoming messages
C1_BufferedCoverage ==
    \A s \in Slots :
        Returning(s) =>
            LET conv == run[s].tracked[run[s].i]
            IN \A m \in run[s].snap :
                   ( /\ ~m.isFromMe
                     /\ IsDefined(conv.lastSyncDate)
                     /\ m.date > conv.lastSyncDate[1] - ExportBuffer )
                   => m.id \in run[s].batch

\* invocation s directly follows an invocation whose commit succeeded, and the
\* archive holds no message that was not there when that invocation began
FollowsCommitted(s) ==
    /\ run[s].pc # "idle"
    /\ lastRun.commit = "ok"
    /\ run[s].n = lastRun.n + 1
    /\ Cardinality(archive) = lastRun.archAtLoad

\* the conversations invocation s has finished filtering
Filtered(s) ==
    { run[s].tracked[j].chatIdentifier :
        j \in { j \in DOMAIN run[s].tracked : j < run[s].i \/ (j = run[s].i /\ Returning(s)) } }

UpdatedChats(s) ==
    { run[s].conversationUpdates[j].chatIdentifier : j \in DOMAIN run[s].conversationUpdates }

\* invocation s found nothing new in conversation c, sent nothing for it and
\* leaves its watermark as stored
Quiet(s, c) ==
    /\ c \notin UpdatedChats(s)
    /\ (Returning(s) /\ run[s].tracked[run[s].i].chatIdentifier = c) => run[s].convNew = 0
    /\ \A e \in transportLog : ~(e.n = run[s].n /\ e.chatIdentifier = c)
    /\ run[s].pc = "write" => WatermarksOf(run[s].pendingWrite)[c] = StoredWatermarks[c]

AllCovered(c) ==
    /\ IsDefined(StoredWatermarks[c])
    /\ \A m \in archive : m.chatIdentifier = c => m.date <= StoredWatermarks[c][1]

C3_MonotonicAcrossCycles ==
    [][ ( /\ lastRun.commit = "ok"
          /\ lastRun'.commit = "ok"
          /\ lastRun'.n = lastRun.n + 1 )
        => \A c \in ChatIds :
               (IsDefined(StoredWatermarks[c]) /\ IsDefined(StoredWatermarks'[c]))
               => StoredWatermarks'[c][1] >= StoredWatermarks[c][1] ]_vars

\* C4: from the add on, no step of the service lowers the stored watermark of a
\* tracked conversation
C4_NeverDecreases ==
    [][ \A c \in ChatIds :
            (IsDefined(StoredWatermarks[c]) /\ IsDefined(StoredWatermarks'[c]))
            => StoredWatermarks'[c][1] >= StoredWatermarks[c][1] ]_vars

\* the watermarks the service's ConfigManager hands out
ServedWatermarks == WatermarksOf(loadConfig(configManager, file).config)

\* C5: when the write of the commit throws, every conversation has the
\* watermark it had before the commit began
C5_CommitAtomicity ==
    [][ \A s \in Slots :
            (run[s].pc = "write" /\ lastRun'.n = run[s].n /\ lastRun'.commit = "failed")
            => /\ StoredWatermarks' = run[s].storeBefore
               /\ ServedWatermarks' = run[s].storeBefore ]_vars

\* C6: the cycle after a cycle whose commit failed reads the watermarks that
\* cycle read
C6_RetryReadsSame ==
    \A s \in Slots :
        ( /\ run[s].pc \notin { "idle", "loadConfig" }
          /\ lastRun.commit = "failed"
          /\ run[s].n = lastRun.n + 1 )
        => run[s].readBy = lastRun.readBy

SkipLine == "Previous sync still running, skipping this interval"

\* C7: never two runSync invocations in flight; a tick during a cycle writes
\* the skip line and starts nothing, exports nothing, sends nothing and writes
\* nothing
C7_SingleInFlight ==
    [][ /\ Cardinality(InFlight') <= 1
        /\ (isRunning /\ cycles' # cycles) => FALSE
        /\ (lastLog' = SkipLine /\ lastLog # SkipLine)
           => /\ isRunning
              /\ UNCHANGED << contactResolver, run, cycles, file, configManager, transportLog, lastRun >> ]_vars

\* a tick was skipped while the one running cycle was sending
C7_Witness ==
    /\ lastLog = SkipLine
    /\ Cardinality(InFlight) = 1
    /\ \E s \in Slots : run[s].pc = "send"

\* C8: every email handed to the transport is for a received message, and no
\* message of the archive with isFromMe = true was handed over
C8_NoOutgoingEmails ==
    /\ \A e \in transportLog : ~e.isFromMe
    /\ \A m \in archive : m.isFromMe => \A e \in transportLog : e.id # m.id

\* a conversation with a new sent and a new received message was filtered (both
\* counted) and the received one was handed to the transport
C8_Witness ==
    \E s \in Slots :
        /\ Returning(s)
        /\ run[s].convNew = 2
        /\ \E m \in run[s].snap : m.isFromMe
        /\ \E e \in transportLog : e.n = run[s].n /\ e.id \in run[s].batch

\* C9: in a batch of more than one email the first has neither inReplyTo nor
\* references; every later one replies to the email before it and references
\* the messageIds of all emails before it, in order
C9_ThreadChain ==
    \A s \in Slots :
        LET emails == run[s].emails
        IN Len(emails) > 1 =>
               /\ emails[1].inReplyTo = Undefined
               /\ emails[1].references = Undefined
               /\ \A i \in 2 .. Len(emails) :
                      /\ emails[i].inReplyTo = Some(emails[i - 1].messageId)
                      /\ emails[i].references =
                             Some([ j \in 1 .. (i - 1) |-> emails[j].messageId ])

\* a batch of three was converted and the sort moved the message given first
C9_Witness ==
    \E s \in Slots :
        /\ Len(run[s].emails) = 3
        /\ run[s].emails[1].body.id # 1
        /\ run[s].emails[3].references # Undefined

C13_SimulationAfterInitFailure ==
    gmailService = "uninitialized" =>
        /\ transportLog = {}
        /\ \A s \in Slots : run[s].pc # "send"
        /\ lastLog # "Failed to send email"

\* the step is a send of invocation s that failed
FailedSend(s) ==
    /\ run[s].pc = "send"
    /\ lastLog' = "Failed to send email"
    /\ lastLog' # lastLog \/ run'[s] # run[s]

ExtractionFails(s) ==
    /\ run[s].pc \in { "export", "parse" }
    /\ run'[s].failed # run[s].failed

\* C12: a conversation whose export or parse failed is skipped (nothing new is
\* counted for it and no update is recorded), the error is logged, the cycle
\* goes on, and the commit leaves the stored watermark of that conversation as
\* it was
C12_ExtractionErrorIsolation ==
    [][ \A s \in Slots :
            /\ ExtractionFails(s) =>
                   /\ Returning(s)'
                   /\ run'[s].convNew = 0
                   /\ lastLog' \in { "Export failed", "Failed to parse exported messages" }
            /\ run[s].failed \cap UpdatedChats(s) = {}
            /\ (run[s].pc = "write" /\ lastRun'.n = run[s].n /\ lastRun'.commit = "ok") =>
                   \A c \in run[s].failed : StoredWatermarks'[c] = StoredWatermarks[c]
      ]_vars

\* C15: when the shutdown signal ends the process no cycle is in flight: a
\* running cycle has reached its commit first
C15_CleanShutdown ==
    [][ (cronJob /\ ~cronJob') => \A s \in Slots : run[s].pc = "idle" ]_vars

\* the step ends invocation s with the given outcome of its commit
Ends(s, outcomes) ==
    /\ run[s].pc # "idle"
    /\ lastRun'.n = run[s].n
    /\ lastRun'.n # lastRun.n
    /\ lastRun'.commit \in outcomes

\* a step of a cycle writes the configuration file only as the write of the
\* commit that follows the last conversation of the cycle
OnlyBatchedWrites ==
    file'.mtime # file.mtime /\ run' # run =>
        \E s \in Slots :
            /\ run[s].pc = "write"
            /\ run[s].i > Len(run[s].tracked)
            /\ run'[s].pc = "idle"
            /\ file'.mtime = file.mtime + 1

\* C16 as stated: every cycle writes the configuration file exactly once, with
\* its batched commit after all conversations
C16_ExactlyOneWrite ==
    [][ /\ OnlyBatchedWrites
        /\ \A s \in Slots :
               Ends(s, { "ok", "failed", "none" }) => file'.mtime = file.mtime + 1 ]_vars

\* C14: a tracked conversation leaves the configuration file only by a step of
\* an explicit removal command, whatever loads, cycles and commits take place
\* and whether or not the file can be read at the time
C14_NeverRemovedAutomatically ==
    [][ StoredTracked \subseteq StoredTracked' \/ lastLog' = "Removed from tracking" ]_vars

\* C17: the write of a commit leaves the conversations tracked by the
\* configuration file as they were just before it, so that a conversation
\* another writer added or removed during the cycle stays added or removed
C17_ExternalEditsPreserved ==
    [][ \A s \in Slots :
            run[s].pc = "write" /\ run'[s].pc = "idle" =>
                StoredTracked' = StoredTracked ]_vars

\* the messages of the first k emails of the batch invocation 1 is sending
HandedOver(k) == { run[1].emails[j].body.id : j \in 1 .. k }

BuiltEmails == Range(run[1].emails) \cup Range(run[2].emails)

\* C19: the emails two cycles build for the same message of the same
\* conversation carry the same messageId
C19_StableMessageId ==
    \A first \in Range(run[1].emails), second \in Range(run[2].emails) :
        (first.conversationId = second.conversationId /\ first.body.id = second.body.id)
            => first.messageId = second.messageId

\* C20: emails built for different (conversation id, message guid) pairs carry
\* different messageIds
C20_InjectiveMessageId ==
    \A e1 \in BuiltEmails, e2 \in BuiltEmails :
        << e1.conversationId, e1.body.guid >> # << e2.conversationId, e2.body.guid >>
            => e1.messageId # e2.messageId

\* the display names the four sources hold for an identifier, in the order
\* exact cache hit, contact-cache hit, manual mapping, formatted fallback
SourcesFor(resolver, identifier) ==
    << IF identifier \in DOMAIN resolver.contactCache
       THEN Some(resolver.contactCache[identifier].displayName) ELSE Undefined,
       IF IncludesAt(identifier)
       THEN lookupByEmail(resolver.globalContactCache, identifier)
       ELSE lookupByPhone(resolver.globalContactCache, identifier),
       IF identifier \in DOMAIN resolver.manualContacts
       THEN Some(resolver.manualContacts[identifier]) ELSE Undefined,
       Some(formatIdentifier(identifier)) >>

\* the first source that holds a name
FirstSource(sources) ==
    sources[CHOOSE j \in DOMAIN sources :
                /\ IsDefined(sources[j])
                /\ \A i \in 1 .. j - 1 : ~IsDefined(sources[i])][1]

\* C21: a call of resolveContact returns a display name, that of the first
\* source that has one in the order exact cache hit, normalized-phone
\* contact-cache hit, manual mapping, formatted identifier
C21_ResolutionPrecedence ==
    [][ (IsDefined(contactResolver'.returned)
            /\ contactResolver'.returned # contactResolver.returned) =>
        LET call == contactResolver'.returned[1]
        IN /\ Len(call.info.displayName) > 0
           /\ call.info.displayName =
                  FirstSource(SourcesFor(contactResolver, call.identifier)) ]_vars

\* a phone number that has a manual mapping was resolved to the name the
\* contact cache holds for its normalized form
C21_Witness ==
    /\ IsDefined(contactResolver.returned)
    /\ contactResolver.returned[1].identifier = PhoneTen
    /\ contactResolver.returned[1].info.displayName = Ann
    /\ PhoneTen \in DOMAIN contactResolver.manualContacts

\* the time at which a conversation was added to tracking
AddedAt(chat) ==
    (CHOOSE conv \in Range(InitialConfig.trackedConversations) :
         conv.chatIdentifier = chat).addedDate

\* C22: no message dated at or before the time its conversation was added to
\* tracking is handed to the transport
C22_HistoricalFiltering ==
    \A e \in transportLog, m \in archive :
        m.id = e.id => m.date > AddedAt(m.chatIdentifier)

\* the messages invocation n handed to the transport
SentBy(n) == { e.id : e \in { entry \in transportLog : entry.n = n } }

\* C23: the service with verbose logging and the one without, once both are
\* through the same exported file of the same conversation, have handed the
\* same messages to the transport and recorded the same watermark updates
C23_VerboseChangesNothing ==
    (\A s \in Slots : run[s].pc = "commit") =>
        \A s \in Slots, t \in Slots :
            /\ SentBy(run[s].n) = SentBy(run[t].n)
            /\ run[s].conversationUpdates = run[t].conversationUpdates

\* the exported messages of the conversation invocation s is handling that are
\* later than the watermark the cycle read minus the two-minute buffer
AboveEffectiveWatermark(s) ==
    LET conv == run[s].tracked[run[s].i]
    IN { m \in run[s].snap :
           ~IsDefined(conv.lastSyncDate) \/ m.date > conv.lastSyncDate[1] - ExportBuffer }

\* C24: the messages a cycle treats as new for a conversation are exactly those
\* with timestamp > watermark - 2 minutes: they are the ones it counts, and the
\* received ones among them are its batch
C24_BufferedDeltaFilter ==
    \A s \in Slots :
        (Returning(s) /\ run[s].tracked[run[s].i].chatIdentifier \notin run[s].failed) =>
            /\ run[s].convNew = Cardinality(AboveEffectiveWatermark(s))
            /\ run[s].batch = { m.id : m \in { x \in AboveEffectiveWatermark(s) : ~x.isFromMe } }

\* the subjects of the emails of invocation 1 after the step are base for the
\* first email and "Re: " followed by base for every later one
SubjectsAre(base) ==
    \A j \in DOMAIN run'[1].emails :
        run'[1].emails[j].subject = IF j = 1 THEN base ELSE << "Re: " >> \o base

ShownIdentifier(chat) ==
    IF IncludesAt(chat) THEN chat
    ELSE IF Len(DigitsOf(chat)) = 10 THEN << "+", "1" >> \o DigitsOf(chat)
    ELSE IF Len(DigitsOf(chat)) = 11 /\ DigitsOf(chat)[1] = "1" THEN << "+" >> \o DigitsOf(chat)
    ELSE IF StartsWithPlus(chat) THEN chat
    ELSE << "+" >> \o chat

C26_OneChainPerConversation ==
    [][ \A s \in Slots :
            (run[s].pc = "send" /\ run'[s] # run[s]) =>
                LET email == run[s].emails[run[s].k]
                IN ~IsDefined(email.inReplyTo) <=>
                       ~\E e \in transportLog : /\ e.n = run[s].n
                                                 /\ e.chatIdentifier = email.conversationId ]_vars

\* C27: the first email of every batch has neither inReplyTo nor references,
\* whatever earlier cycles sent for the conversation, and the updates a cycle
\* collects for the commit carry a watermark and no message id
C27_ChainResetsEveryBatch ==
    \A s \in Slots :
        /\ run[s].emails # << >> =>
               /\ run[s].emails[1].inReplyTo = Undefined
               /\ run[s].emails[1].references = Undefined
        /\ \A j \in DOMAIN run[s].conversationUpdates :
               DOMAIN run[s].conversationUpdates[j] = { "chatIdentifier", "lastSyncDate" }

\* a cycle is about to hand over the first email of a batch for a conversation
\* for which an earlier cycle handed over emails, and has collected an update
C27_Witness ==
    \E s \in Slots :
        /\ run[s].pc = "send"
        /\ run[s].k = 1
        /\ run[s].conversationUpdates # << >>
        /\ \E e \in transportLog :
               e.n < run[s].n /\ e.chatIdentifier = run[s].emails[1].conversationId

\* invocation s handed an email of conversation c to the transport
EmailedBy(s, c) == \E e \in transportLog : e.n = run[s].n /\ e.chatIdentifier = c

\* C28: when syncConversation returns for a conversation whose new messages
\* are all outgoing, no email was handed over for it and runSync records its
\* update; the commit of the cycle, when its write succeeds, stores for such a
\* conversation a watermark later than the one the cycle read
C28_OutgoingCountsAsProgress ==
    [][ \A s \in Slots :
            /\ (/\ Returning(s) /\ run'[s] # run[s] /\ run'[s].pc # "idle"
                /\ run[s].convNew > 0 /\ run[s].batch = {}) =>
                   LET c == run[s].tracked[run[s].i].chatIdentifier
                   IN /\ ~EmailedBy(s, c)
                      /\ c \in UpdatedChats(s)'
            /\ (/\ run[s].pc = "write" /\ lastRun'.n = run[s].n /\ lastRun'.commit = "ok"
                /\ gmailService # "null") =>
                   \A c \in UpdatedChats(s) :
                       ~EmailedBy(s, c) =>
                           StoredWatermarks'[c][1] > run[s].readBy[c][1] ]_vars

\* the steps of syncConversation for the conversation at hand
Processing(s) == run[s].pc \in { "export", "parse", "send" }

\* C29: within a cycle the tracked conversations are processed one at a time
\* in list order: the loop starts at the first entry, moves on by exactly one
\* entry and only when every exported file of the conversation at hand is
\* parsed and no email of it is left to send, an export starts with nothing of
\* an earlier conversation outstanding, the commit begins only after the last
\* entry, and at most one invocation is exporting, parsing or sending
C29_SequentialInListOrder ==
    [][ /\ Cardinality({ s \in Slots : Processing(s)' }) <= 1
        /\ \A s \in Slots :
               /\ (run[s].pc = "loadConfig" /\ run'[s] # run[s] /\ run'[s].pc # "idle") =>
                      /\ run'[s].pc = "export" /\ run'[s].i = 1
                      /\ run'[s].tracked = configManager'.config[1].trackedConversations
               /\ (Processing(s) /\ run'[s].pc # "idle") =>
                      /\ run'[s].tracked = run[s].tracked
                      /\ run'[s].i # run[s].i =>
                             /\ run'[s].i = run[s].i + 1
                             /\ run[s].pc = "parse"
                             /\ run[s].pendingFiles = << >> /\ run[s].emails = << >>
                             /\ run'[s].pc = IF run[s].i = Len(run[s].tracked)
                                             THEN "commit" ELSE "export"
               /\ run'[s].pc = "export" =>
                      /\ run'[s].i \in 1 .. Len(run'[s].tracked)
                      /\ run'[s].pendingFiles = << >> /\ run'[s].emails = << >>
               /\ run'[s].pc = "commit" => run'[s].i = Len(run'[s].tracked) + 1 ]_vars

\* the export of the second conversation is about to start after an email of
\* the first one was handed over in the same invocation
C29_Witness ==
    \E s \in Slots :
        /\ run[s].pc = "export" /\ run[s].i = 2
        /\ \E e \in transportLog :
               e.n = run[s].n /\ e.chatIdentifier = run[s].tracked[1].chatIdentifier

\* ------------------------------------------------------------------------
\* The cycle under fair scheduling: every awaited call of a running runSync
\* eventually resolves or throws.  A received message of +1 may arrive and a
\* "sync" command may remove a conversation while the service runs.
\* ------------------------------------------------------------------------
\* the guids parseExportedData draws for a file of n messages
FreshGuids(n) == [ j \in 1 .. n |-> IF j = 1 THEN << "0", ".", "a" >> ELSE << "0", ".", "b" >> ]

\* the continuation of a pending await inside runSync
RunSyncStep ==
    \E s \in Slots :
        \/ RunSyncLoadConfig(s)
        \/ \E success \in BOOLEAN : SyncConversationExport(s, success)
        \/ SyncConversationParse(s, FreshGuids(Len(Head(run[s].pendingFiles))))
        \/ SyncConversationParseFails(s)
        \/ \E delivered \in BOOLEAN : SyncConversationSend(s, delivered)
        \/ RunSyncCollect(s)
        \/ BatchUpdateSyncApply(s)
        \/ \E written \in BOOLEAN : BatchUpdateSyncWrite(s, written)

NextLive ==
    \/ MessageArrives(ChatA, FALSE, 1)
    \/ \E chat \in ChatIds : CliRemoveTracked(chat)
    \/ \E credentials \in BOOLEAN : ServiceStart(TRUE, credentials)
    \/ CronTickSkipped
    \/ CronTickRuns
    \/ RunSyncStep

SpecLive == Init /\ [][NextLive]_vars /\ WF_vars(RunSyncStep)

\* C30: every started runSync ends with isRunning false, whether it completed,
\* returned early for an empty tracked list or caught an exception (a failed
\* write of the commit included); isRunning is true only while an invocation
\* is in flight, so a tick is skipped only then
C30_EveryCycleReturnsToIdle ==
    /\ (InFlight # {}) ~> (InFlight = {} /\ ~isRunning)
    /\ [](InFlight = {} => ~isRunning)
    /\ [][CronTickSkipped => InFlight # {}]_vars

\* a cycle whose commit threw has ended and the flag is cleared
C30_Witness ==
    /\ lastRun.commit = "failed" /\ lastLog = "Sync failed"
    /\ InFlight = {} /\ ~isRunning /\ cronJob

\* what the configuration file holds of every tracked conversation besides
\* its watermark, in list order
StoredFrame ==
    LET tracked == deserializeConfig(file.raw).trackedConversations
    IN [ i \in DOMAIN tracked |->
           [ chatIdentifier |-> tracked[i].chatIdentifier,
             addedDate |-> tracked[i].addedDate ] ]

\* C31: the write of a cycle's commit changes, in the configuration file, the
\* watermark of no conversation for which the cycle recorded no update (it
\* found nothing new there, or the export or parse failed), and leaves every
\* conversation's identifier and added date and the order of the list as they
\* were
C31_CommitFrame ==
    [][ \A s \in Slots :
            (run[s].pc = "write" /\ lastRun'.n = run[s].n /\ lastRun'.commit = "ok") =>
                /\ \A c \in ChatIds :
                       c \notin UpdatedChats(s) => StoredWatermarks'[c] = StoredWatermarks[c]
                /\ StoredFrame' = StoredFrame ]_vars

\* the lastSyncDate the updates of invocation s carry for conversation c
UpdateFor(s, c) ==
    LET updates == run[s].conversationUpdates
        last == CHOOSE j \in DOMAIN updates :
                    /\ updates[j].chatIdentifier = c
                    /\ \A k \in DOMAIN updates : updates[k].chatIdentifier = c => k <= j
    IN updates[last].lastSyncDate

\* C32: the write of batchUpdateSync brings no conversation into the
\* configuration file: a conversation with an update that the file does not
\* track when the write takes place (it was removed while the cycle ran) is
\* not tracked afterwards either, while the updates of the conversations the
\* file tracks and lastGlobalSync are stored
C32_NeverResurrects ==
    [][ \A s \in Slots :
            (run[s].pc = "write" /\ lastRun'.n = run[s].n /\ lastRun'.commit = "ok") =>
                /\ \A c \in UpdatedChats(s) :
                       IF c \in StoredTracked
                       THEN StoredWatermarks'[c] = Some(UpdateFor(s, c))
                       ELSE c \notin StoredTracked'
                /\ IsDefined(deserializeConfig(file'.raw).lastGlobalSync) ]_vars

\* ------------------------------------------------------------------------
\* The tracked list under "sync" commands alone: any sequence of adds and
\* removals of phone numbers and addresses, at any time
\* ------------------------------------------------------------------------
NextTracked ==
    \/ AdvanceTime
    \/ \E chat \in ConversationIds : CliAddTracked(chat)
    \/ \E chat \in ConversationIds : CliRemoveTracked(chat)

SpecTracked == Init /\ [][NextTracked]_vars

\* the tracked conversations the configuration file holds, in list order
StoredList == deserializeConfig(file.raw).trackedConversations

IdsOf(tracked) == { tracked[i].chatIdentifier : i \in DOMAIN tracked }

\* C33: no two tracked conversations of the configuration file have the same
\* chatIdentifier; an add either appends an identifier that was not tracked or
\* replaces the entry of a tracked one where it stands, the list keeping its
\* length and every other entry; a removal takes out the entries of one
\* identifier and nothing else, and none with that identifier is left
C33_TrackedIdentifiersUnique ==
    [][ /\ \A i, j \in DOMAIN StoredList' :
               StoredList'[i].chatIdentifier = StoredList'[j].chatIdentifier => i = j
        /\ (file' # file /\ lastLog' = "Added to tracking") =>
               \/ /\ Len(StoredList') = Len(StoredList) + 1
                  /\ SubSeq(StoredList', 1, Len(StoredList)) = StoredList
                  /\ StoredList'[Len(StoredList')].chatIdentifier \notin IdsOf(StoredList)
               \/ /\ Len(StoredList') = Len(StoredList)
                  /\ \E i \in DOMAIN StoredList :
                         /\ StoredList'[i].chatIdentifier = StoredList[i].chatIdentifier
                         /\ \A j \in DOMAIN StoredList \ { i } : StoredList'[j] = StoredList[j]
        /\ (file' # file /\ lastLog' = "Removed from tracking") =>
               \E chat \in ConversationIds :
                   /\ chat \notin IdsOf(StoredList')
                   /\ StoredList' = SelectSeq(StoredList,
                                              LAMBDA tracked : tracked.chatIdentifier # chat)
      ]_vars

\* +1, added before +2, still stands before it after it was added once more
C33_Witness ==
    /\ Len(StoredList) = 2
    /\ StoredList[1].chatIdentifier = ChatA /\ StoredList[2].chatIdentifier = ChatB
    /\ StoredList[1].addedDate > StoredList[2].addedDate
    /\ lastLog = "Added to tracking"

\* ------------------------------------------------------------------------
\* A ContactResolver after initialize(): its contact cache is loaded and stays
\* as it is while identifiers are resolved and manual contacts are added and
\* removed
\* ------------------------------------------------------------------------
InitMemo ==
    /\ now = 1
    /\ archive = {}
    /\ file = saveConfig(InitialConfig, NoFile).file
    /\ configManager = NewConfigManager
    /\ started = FALSE
    /\ cronJob = FALSE
    /\ gmailService = "null"
    /\ isRunning = FALSE
    /\ run = [ s \in Slots |-> IdleRun ]
    /\ cycles = 0
    /\ lastLog = "none"
    /\ transportLog = {}
    /\ lastRun = NoRun
    /\ \E book \in AddressBooks :
           contactResolver = [ NewContactResolver EXCEPT !.globalContactCache = CacheOf(book) ]

NextMemo ==
    \/ \E identifier \in Identifiers : AddManualContact(identifier, Bob)
    \/ \E identifier \in Identifiers : RemoveManualContact(identifier)
    \/ \E identifier \in Identifiers : ResolveContact(identifier)

SpecMemo == InitMemo /\ [][NextMemo]_vars

\* a freshly constructed resolver with the contact cache and the manual
\* mappings of the given one
FreshResolver(resolver) ==
    [ NewContactResolver EXCEPT !.globalContactCache = resolver.globalContactCache,
                                !.manualContacts = resolver.manualContacts ]

\* C34: what resolveContact has just returned for an identifier is the display
\* name a freshly constructed resolver with the same contact cache and the
\* same manual mappings returns for it
C34_MemoCacheTransparent ==
    IsDefined(contactResolver.returned) =>
        LET call == contactResolver.returned[1]
            fresh == resolveContact(FreshResolver(contactResolver), call.identifier)
        IN call.info.displayName = fresh.returned[1].info.displayName

\* ------------------------------------------------------------------------
\* The service with email.enabled = false, stopped and started again after
\* email was enabled in the configuration
\* ------------------------------------------------------------------------
\* the service command is run again after the process of an earlier run has
\* exited: start() in a new process
ServiceRestart(emailEnabled, credentials) ==
    /\ started
    /\ ~cronJob
    /\ LET loaded == loadConfig(configManager, file)
       IN /\ Len(loaded.config.trackedConversations) > 0
          /\ configManager' = loaded.mgr
    /\ cronJob' = TRUE
    /\ gmailService' = GmailServiceAfterInit(emailEnabled, credentials)
    /\ EnterRunSync
    /\ lastLog' = "Running initial sync"
    /\ UNCHANGED << contactResolver, now, archive, file, started, transportLog, lastRun >>

NextEmailOff ==
    \/ AdvanceTime
    \/ \E chat \in ChatIds : MessageArrives(chat, FALSE, 1)
    \/ ServiceStart(FALSE, FALSE)
    \/ Shutdown
    \/ ServiceRestart(TRUE, TRUE)
    \/ CronTickRuns
    \/ \E s \in Slots : RunSyncLoadConfig(s)
    \/ \E s \in Slots : SyncConversationExport(s, TRUE)
    \/ \E s \in Slots : SyncConversationParse(s, FreshGuids(Len(Head(run[s].pendingFiles))))
    \/ \E s \in Slots : SyncConversationSend(s, TRUE)
    \/ \E s \in Slots : RunSyncCollect(s)
    \/ \E s \in Slots : BatchUpdateSyncApply(s)
    \/ \E s \in Slots : BatchUpdateSyncWrite(s, TRUE)

SpecEmailOff == Init /\ [][NextEmailOff]_vars

\* the last finished cycle ran with email disabled, committed, and message m
\* was in the archive when it began and newer than the watermark it read
FoundWhileDisabled(m) ==
    /\ lastRun.commit = "ok" /\ lastRun.gmailService = "null"
    /\ m.id <= lastRun.archAtLoad
    /\ \/ ~IsDefined(lastRun.readBy[m.chatIdentifier])
       \/ m.date > lastRun.readBy[m.chatIdentifier][1]

\* C35: with email disabled no email is handed to the transport; the commit
\* of a cycle that ran with email disabled stores, for every conversation it
\* found new messages in, a watermark later than the one it read; and no
\* message such a cycle found is handed to the transport by a later cycle
C35_DisabledEmailConsumesMessages ==
    [][ /\ gmailService = "null" => transportLog' = transportLog
        /\ \A s \in Slots :
               (/\ run[s].pc = "write" /\ lastRun'.n = run[s].n /\ lastRun'.commit = "ok"
                /\ gmailService = "null") =>
                   \A c \in UpdatedChats(s) :
                       /\ IsDefined(StoredWatermarks'[c])
                       /\ IsDefined(run[s].readBy[c]) =>
                              StoredWatermarks'[c][1] > run[s].readBy[c][1]
        /\ \A e \in transportLog' \ transportLog :
               \A m \in archive : m.id = e.id => ~FoundWhileDisabled(m) ]_vars

\* ------------------------------------------------------------------------
\* A configuration file in which +1 has no lastSyncDate (the field is
\* optional): the service started on it
\* ------------------------------------------------------------------------
ConfigWithoutWatermark ==
    [ InitialConfig EXCEPT !.trackedConversations[1].lastSyncDate = Undefined ]

InitNoWatermark ==
    /\ now = 1
    /\ archive = {}
    /\ file = saveConfig(ConfigWithoutWatermark, NoFile).file
    /\ configManager = NewConfigManager
    /\ started = FALSE
    /\ cronJob = FALSE
    /\ gmailService = "null"
    /\ isRunning = FALSE
    /\ run = [ s \in Slots |-> IdleRun ]
    /\ cycles = 0
    /\ lastLog = "none"
    /\ transportLog = {}
    /\ lastRun = NoRun
    /\ contactResolver = NewContactResolver

NextNoWatermark ==
    \/ AdvanceTime
    \/ \E isFromMe \in BOOLEAN : MessageArrives(ChatA, isFromMe, 1)
    \/ \E emailEnabled \in BOOLEAN : ServiceStart(emailEnabled, TRUE)
    \/ CronTickRuns
    \/ \E s \in Slots : RunSyncLoadConfig(s)
    \/ \E s \in Slots, success \in BOOLEAN : SyncConversationExport(s, success)
    \/ \E s \in Slots : SyncConversationParse(s, FreshGuids(Len(Head(run[s].pendingFiles))))
    \/ \E s \in Slots, delivered \in BOOLEAN : SyncConversationSend(s, delivered)
    \/ \E s \in Slots : RunSyncCollect(s)
    \/ \E s \in Slots : BatchUpdateSyncApply(s)
    \/ \E s \in Slots, written \in BOOLEAN : BatchUpdateSyncWrite(s, written)

SpecNoWatermark == InitNoWatermark /\ [][NextNoWatermark]_vars

\* the conversation invocation s is handling has no watermark
WithoutWatermark(s) == ~IsDefined(run[s].tracked[run[s].i].lastSyncDate)

\* when syncConversation returns for a conversation without watermark whose
\* export succeeded, every exported message was counted as new and, where a
\* Gmail service exists, every received one was handed to it
AllNewAndHandedOver(s) ==
    (Returning(s) /\ WithoutWatermark(s)
        /\ run[s].tracked[run[s].i].chatIdentifier \notin run[s].failed) =>
        /\ run[s].convNew = Cardinality(run[s].snap)
        /\ run[s].batch = { m.id : m \in { x \in run[s].snap : ~x.isFromMe } }
        /\ gmailService # "null" => run[s].batch \subseteq SentBy(run[s].n)

\* the conversations invocation s read without watermark and did not fail on
UnmarkedChats(s) ==
    { c \in IdsOf(run[s].tracked) : ~IsDefined(run[s].readBy[c]) /\ c \notin run[s].failed }

====
